---- MODULE Spec2Model ----
(***************************************************************************)
(* Model of the TPMS BLE advertisement parser                              *)
(* (custom_components/tpms_ble/tpms_parser/parser.py) and of the sensor    *)
(* platform's conversion of a parser update (sensor.py).                   *)
(*                                                                         *)
(* TPMSBluetoothDeviceData has no fields of its own: what a call of        *)
(* _start_update does is the calls it makes on its base class              *)
(* (set_device_manufacturer, set_device_name, update_sensor,               *)
(* update_binary_sensor), the records it logs and the exception it may     *)
(* leave with.  The state of the model is that outcome for the most recent *)
(* advertisement.                                                          *)
(*                                                                         *)
(* Numbers.  The code computes in Python floats; the model keeps every     *)
(* quantity as an integer in a fixed unit:                                 *)
(*   pressure     1e-5 bar        temperature  0.01 degree Celsius         *)
(*   voltage      0.01 V          battery      percent                     *)
(* A payload is a sequence of bytes 0..255, index 1 being Python index 0;  *)
(* the Python slice data[a:b] is SubSeq(data, a+1, b).                     *)
(***************************************************************************)
EXTENDS Integers, Sequences, FiniteSets, TLC

VARIABLES
    service_info,         \* the advertisement handed to _start_update
    called,               \* which _process_tpms_* method the call entered
    device_manufacturer,  \* argument of set_device_manufacturer, or None
    device_name,          \* argument of set_device_name/set_title, or None
    sensors,              \* key -> native_value of every update_sensor call
    binary_sensors,       \* key -> native_value of every update_binary_sensor call
    log,                  \* severities of the records logged, in order
    raised,               \* "none", or the exception the call left with
    entity_descriptions,  \* result of sensor_update_to_bluetooth_data_update
    convert_raised,       \* "none", or the exception that conversion left with
    bp_voltage,           \* argument of a direct battery_percentage call
    bp_percentage         \* its result, or None before the call

vars == <<service_info, called, device_manufacturer, device_name, sensors,
          binary_sensors, log, raised, entity_descriptions, convert_raised,
          bp_voltage, bp_percentage>>

parser_vars == <<service_info, called, device_manufacturer, device_name,
                 sensors, binary_sensors, log, raised>>

----------------------------------------------------------------------------
(* Python's None and a present value *)
None == <<>>
Some(v) == <<v>>

EmptyMap == [k \in {} |-> 0]

Put(m, k, v) == [x \in (DOMAIN m) \cup {k} |-> IF x = k THEN v ELSE m[x]]

----------------------------------------------------------------------------
(* struct.unpack formats used by the parser *)

\* "B": unsigned byte
unpack_B(b) == b

\* "b": signed byte
unpack_b(b) == IF b >= 128 THEN b - 256 ELSE b

\* "?": bool
unpack_bool(b) == b # 0

\* "<H": unsigned 16-bit, little-endian
unpack_H_le(bytes) == bytes[1] + 256 * bytes[2]

\* "i" under "=": signed 32-bit, standard size, byte order of the host
\* (little-endian on the hosts the integration runs on)
unpack_i(bytes) ==
    bytes[1] + 256 * bytes[2] + 65536 * bytes[3] + 16777216 * unpack_b(bytes[4])

----------------------------------------------------------------------------
(* battery_percentage: voltages in 0.01 V *)

discharge_curve ==
    << <<330, 100>>, <<305, 97>>, <<294, 91>>, <<290, 75>>,
       <<285, 25>>, <<280, 17>>, <<260, 0>> >>

\* Mutant of interpolate: the distance is taken from the upper anchor.
interpolate_from_upper(voltage, V1, P1, V2, P2) ==
    LET den == V2 - V1
        num == P1 * den + (V2 - voltage) * (P2 - P1)
    IN  (2 * num + den) \div (2 * den)

\* int(round(P1 + ((voltage - V1) / (V2 - V1)) * (P2 - P1))).
\* The exact value is a half only at 2.70 V (8.5): there the double
\* expression evaluates to 8.50000000000002 (2.7 - 2.6 is
\* 0.10000000000000009 in doubles) and round() gives 9, so the half goes up.
interpolate(voltage, V1, P1, V2, P2) ==
    LET den == V2 - V1
        num == P1 * den + (voltage - V1) * (P2 - P1)
    IN  (2 * num + den) \div (2 * den)

\* for i in range(len(discharge_curve) - 1): ...; return 0
RECURSIVE curve_loop(_, _)
curve_loop(voltage, i) ==
    IF i > Len(discharge_curve) - 1
    THEN 0
    ELSE LET V2 == discharge_curve[i][1]
             P2 == discharge_curve[i][2]
             V1 == discharge_curve[i + 1][1]
             P1 == discharge_curve[i + 1][2]
         IN  IF V1 < voltage /\ voltage <= V2
             THEN interpolate(voltage, V1, P1, V2, P2)
             ELSE curve_loop(voltage, i + 1)

battery_percentage(voltage) ==
    IF voltage >= discharge_curve[1][1]
    THEN 100
    ELSE IF voltage < discharge_curve[Len(discharge_curve)][1]
         THEN 0
         ELSE curve_loop(voltage, 1)

----------------------------------------------------------------------------
(* round(raw_press_le / 1000, 2), in 0.01 bar.                             *)
(* A raw value ending in 5 is a decimal tie, and round() then follows the  *)
(* double raw/1000: the quotient has a 53-bit significand m with           *)
(* m = raw * 2^e / 1000 rounded to nearest, so the double lies below the   *)
(* exact value when (raw * 2^e) mod 1000 < 500, above it when > 500, and   *)
(* is exact when it is 0 (then Python rounds the half to even).  The       *)
(* remainder is never 500, since 2^e is a multiple of 8 and 500 is not.    *)

RECURSIVE pow2mod(_, _)
pow2mod(e, m) == IF e = 0 THEN 1 % m ELSE (2 * pow2mod(e - 1, m)) % m

RECURSIVE pow2(_)
pow2(k) == IF k = 0 THEN 1 ELSE 2 * pow2(k - 1)

RECURSIVE binade_up(_, _)
binade_up(raw, k) ==
    IF 1000 * pow2(k + 1) <= raw THEN binade_up(raw, k + 1) ELSE k

RECURSIVE binade_down(_, _)
binade_down(raw, j) ==
    IF raw * pow2(j) >= 1000 THEN j ELSE binade_down(raw, j + 1)

\* e with 2^52 <= raw * 2^e / 1000 < 2^53, for raw >= 1
significand_shift(raw) ==
    IF raw >= 1000 THEN 52 - binade_up(raw, 0) ELSE 52 + binade_down(raw, 1)

round2_thousandths(raw) ==
    LET q == raw \div 10
        r == raw % 10
        rem == ((raw % 1000) * pow2mod(significand_shift(raw), 1000)) % 1000
    IN  IF r < 5 THEN q
        ELSE IF r > 5 THEN q + 1
        ELSE IF rem = 0 THEN (IF q % 2 = 0 THEN q ELSE q + 1)
        ELSE IF rem < 500 THEN q
        ELSE q + 1

\* max(0, round(raw_press_le / 1000, 2) - 1), in 1e-5 bar
michelin_pressure_bar(raw_press_le) ==
    LET centibar == round2_thousandths(raw_press_le) - 100
    IN  IF centibar > 0 THEN 1000 * centibar ELSE 0

----------------------------------------------------------------------------
(* round(psi_pressure * 0.0689476, 3) with psi_pressure = x / 10, in       *)
(* 0.001 bar: x * 689476 / 100000 rounded to nearest.  The product is      *)
(* split so that no intermediate value exceeds 32 bits.  The exact value   *)
(* is a half only for x = 12500, 37500, 62500; the double product lies     *)
(* below the half for the first two (86.184, 258.553) and above it for the *)
(* third (430.923).                                                        *)

round3_bar_nonneg(x) ==
    LET a == x * 89
        t == (a % 100) * 1000 + x * 476
        q == 6 * x + (a \div 100) + (t \div 100000)
        r == t % 100000
    IN  IF r < 50000 THEN q
        ELSE IF r > 50000 THEN q + 1
        ELSE IF x = 62500 THEN q + 1 ELSE q

round3_bar(x) == IF x >= 0 THEN round3_bar_nonneg(x) ELSE 0 - round3_bar_nonneg(0 - x)

----------------------------------------------------------------------------
(* hex strings, as sequences of hex digits 0..15 *)

\* hex(company_id)[2:].zfill(4), company identifiers being 16-bit
hex_zfill4(n) == <<n \div 4096, (n \div 256) % 16, (n \div 16) % 16, n % 16>>

\* Mutant of reverse_pairs: the pairs are not reversed.
reverse_pairs_unreversed(s) == s

\* "".join(re.findall("..", s)[::-1]) for a 4-digit s
reverse_pairs(s) == <<s[3], s[4], s[1], s[2]>>

\* bytes.hex()
bytes_hex(data) ==
    [i \in 1..(2 * Len(data)) |->
        IF i % 2 = 1 THEN data[(i + 1) \div 2] \div 16 ELSE data[i \div 2] % 16]

\* int(s, 16)
RECURSIVE int16(_)
int16(s) ==
    IF Len(s) = 0 THEN 0
    ELSE 16 * int16(SubSeq(s, 1, Len(s) - 1)) + s[Len(s)]

----------------------------------------------------------------------------
(* The outcome of a call: what it did to the base class, logged and raised *)

NoSensors == [name |-> None, sensors |-> EmptyMap, binary_sensors |-> EmptyMap]

Outcome(upd, logged, exc) ==
    [name |-> upd.name, sensors |-> upd.sensors,
     binary_sensors |-> upd.binary_sensors, log |-> logged, raised |-> exc]

\* short_address(address) is left to bluetooth_data_tools
device_title(address) == <<"TPMS ", address>>

\* Every argument but address is None or Some(value).
_update_sensors(address, pressure, battery_pct, temperature, alarm, voltage) ==
    LET s1 == IF pressure # None
              THEN Put(EmptyMap, "pressure", pressure[1]) ELSE EmptyMap
        s2 == IF temperature # None
              THEN Put(s1, "temperature", temperature[1]) ELSE s1
        s3 == IF battery_pct # None
              THEN Put(s2, "battery", battery_pct[1]) ELSE s2
        b1 == IF alarm # None
              THEN Put(EmptyMap, "alarm", alarm[1]) ELSE EmptyMap
        s4 == IF voltage # None
              THEN Put(s3, "voltage", voltage[1]) ELSE s3
    IN  [name |-> Some(device_title(address)), sensors |-> s4,
         binary_sensors |-> b1]

TYPE_A_LENGTH == 16

_process_tpms_a(address, local_name, data) ==
    LET msg_length == Len(data)
        fields == SubSeq(data, 7, 16)
        pressure == unpack_i(SubSeq(fields, 1, 4))
        temperature == unpack_i(SubSeq(fields, 5, 8))
        battery == unpack_b(fields[9])
        alarm == unpack_bool(fields[10])
    IN  IF msg_length # TYPE_A_LENGTH
        THEN Outcome(NoSensors, <<"debug", "error">>, "none")
        ELSE Outcome(_update_sensors(address, Some(pressure), Some(battery),
                                     Some(temperature), Some(alarm), None),
                     <<"debug">>, "none")

TYPE_B_HEX_LENGTH == 10

_process_tpms_b(address, local_name, data, company_id) ==
    LET comp_hex == reverse_pairs(hex_zfill4(company_id))
        data_hex == bytes_hex(data)
        msg_length == Len(data_hex)
        voltage == 10 * int16(SubSeq(comp_hex, 3, 4))
        raw_temperature == int16(SubSeq(data_hex, 1, 2))
        temperature == IF raw_temperature >= 128
                       THEN raw_temperature - 256 ELSE raw_temperature
        psi_pressure == int16(SubSeq(data_hex, 3, 6)) - 145
        pressure == 100 * round3_bar(psi_pressure)
        battery == battery_percentage(voltage)
    IN  IF msg_length # TYPE_B_HEX_LENGTH
        THEN Outcome(NoSensors, <<"debug", "error">>, "none")
        ELSE Outcome(_update_sensors(address, Some(pressure), Some(battery),
                                     Some(100 * temperature), None, Some(voltage)),
                     <<"debug">>, "none")

MICHELIN_PRODUCT_TYPE == 1

\* Mutant of frame_length: frame 0x06 is held to the length of frame 0x04.
frame_length_06_as_04(frame_type) ==
    CASE frame_type = 2 -> 12
      [] frame_type = 4 -> 14
      [] frame_type = 5 -> 14
      [] frame_type = 6 -> 14
      [] frame_type = 12 -> 17
      [] OTHER -> 0

\* the length each known frame type must have; 0 for an unknown frame type
frame_length(frame_type) ==
    CASE frame_type = 2 -> 12
      [] frame_type = 4 -> 14
      [] frame_type = 5 -> 14
      [] frame_type = 6 -> 12
      [] frame_type = 12 -> 17
      [] OTHER -> 0

\* Mutant of frame_pressure: frame 0x05 reads its pressure at bytes[4:6].
frame_pressure_same_offset(frame_type, data) ==
    CASE frame_type = 4 -> Some(michelin_pressure_bar(unpack_H_le(SubSeq(data, 5, 6))))
      [] frame_type = 5 -> Some(michelin_pressure_bar(unpack_H_le(SubSeq(data, 5, 6))))
      [] frame_type = 12 -> Some(michelin_pressure_bar(unpack_H_le(SubSeq(data, 5, 6))))
      [] OTHER -> None

\* Mutant of frame_pressure: a frame without pressure reports 0 bar.
frame_pressure_zero_default(frame_type, data) ==
    CASE frame_type = 4 -> Some(michelin_pressure_bar(unpack_H_le(SubSeq(data, 5, 6))))
      [] frame_type = 5 -> Some(michelin_pressure_bar(unpack_H_le(SubSeq(data, 13, 14))))
      [] frame_type = 12 -> Some(michelin_pressure_bar(unpack_H_le(SubSeq(data, 5, 6))))
      [] OTHER -> Some(0)

\* pressure_bar of a frame of the right length: None, or Some(1e-5 bar)
frame_pressure(frame_type, data) ==
    CASE frame_type = 4 -> Some(michelin_pressure_bar(unpack_H_le(SubSeq(data, 5, 6))))
      [] frame_type = 5 -> Some(michelin_pressure_bar(unpack_H_le(SubSeq(data, 13, 14))))
      [] frame_type = 12 -> Some(michelin_pressure_bar(unpack_H_le(SubSeq(data, 5, 6))))
      [] OTHER -> None

_process_tpms_c(address, local_name, data) ==
    IF Len(data) < 1
    THEN Outcome(NoSensors, <<"debug">>, "IndexError")           \* data[0]
    ELSE IF data[1] # MICHELIN_PRODUCT_TYPE
    THEN Outcome(NoSensors, <<"debug", "debug">>, "none")
    ELSE IF Len(data) < 2
    THEN Outcome(NoSensors, <<"debug">>, "IndexError")           \* data[1]
    ELSE
      LET frame_type == data[2]
          msg_length == Len(data)
          raw_temp == unpack_B(data[3])
          raw_volt == unpack_B(data[4])
          temperature_celcius == raw_temp - 60
          battery_voltage == raw_volt + 100
          pressure_bar == frame_pressure(frame_type, data)
          battery_pct == battery_percentage(battery_voltage)
      IN  IF frame_type \notin {2, 4, 5, 6, 12}
          THEN Outcome(NoSensors, <<"debug", "info">>, "none")
          ELSE IF msg_length # frame_length(frame_type)
          THEN Outcome(NoSensors, <<"debug", "error">>, "none")
          ELSE Outcome(_update_sensors(address, pressure_bar, Some(battery_pct),
                                       Some(100 * temperature_celcius), None,
                                       Some(battery_voltage)),
                       <<"debug">>, "none")

----------------------------------------------------------------------------
(* _start_update *)

SERVICE_UUID_27A5 == "000027a5-0000-1000-8000-00805f9b34fb"

Routed(method, manufacturer, o) ==
    [called |-> method, manufacturer |-> manufacturer, name |-> o.name,
     sensors |-> o.sensors, binary_sensors |-> o.binary_sensors,
     log |-> <<"debug">> \o o.log, raised |-> o.raised]

\* Mutant of _start_update: the company ids are tested before the UUID.
_start_update_company_first(si) ==
    LET manufacturer_data == si.manufacturer_data
        local_name == si.name
        address == si.address
        company_id == manufacturer_data[1][1]
        mfr_data == manufacturer_data[1][2]
    IN  IF Len(manufacturer_data) = 0
        THEN Routed("none", None, Outcome(NoSensors, <<>>, "none"))
        ELSE IF company_id = 256
        THEN Routed("_process_tpms_a", Some("TPMSII TypeA"),
                    _process_tpms_a(address, local_name, mfr_data))
        ELSE IF company_id = 2088
        THEN Routed("_process_tpms_c", Some("Michelin"),
                    _process_tpms_c(address, local_name, mfr_data))
        ELSE IF SERVICE_UUID_27A5 \in si.service_uuids
        THEN Routed("_process_tpms_b", Some("SYTPMS TypeB"),
                    _process_tpms_b(address, local_name, mfr_data, company_id))
        ELSE Routed("none", None, Outcome(NoSensors, <<"debug">>, "none"))

\* Mutant of _start_update: company 2088 is handed to the TypeB decoder.
_start_update_2088_as_typeb(si) ==
    LET manufacturer_data == si.manufacturer_data
        local_name == si.name
        address == si.address
        company_id == manufacturer_data[1][1]
        mfr_data == manufacturer_data[1][2]
    IN  IF Len(manufacturer_data) = 0
        THEN Routed("none", None, Outcome(NoSensors, <<>>, "none"))
        ELSE IF SERVICE_UUID_27A5 \in si.service_uuids
        THEN Routed("_process_tpms_b", Some("SYTPMS TypeB"),
                    _process_tpms_b(address, local_name, mfr_data, company_id))
        ELSE IF company_id = 256
        THEN Routed("_process_tpms_a", Some("TPMSII TypeA"),
                    _process_tpms_a(address, local_name, mfr_data))
        ELSE IF company_id = 2088
        THEN Routed("_process_tpms_b", Some("SYTPMS TypeB"),
                    _process_tpms_b(address, local_name, mfr_data, company_id))
        ELSE Routed("none", None, Outcome(NoSensors, <<"debug">>, "none"))

\* manufacturer_data is the dict in insertion order, a sequence of
\* <<company_id, payload>>; next(iter(...items())) is its first element.
_start_update(si) ==
    LET manufacturer_data == si.manufacturer_data
        local_name == si.name
        address == si.address
        company_id == manufacturer_data[1][1]
        mfr_data == manufacturer_data[1][2]
    IN  IF Len(manufacturer_data) = 0
        THEN Routed("none", None, Outcome(NoSensors, <<>>, "none"))
        ELSE IF SERVICE_UUID_27A5 \in si.service_uuids
        THEN Routed("_process_tpms_b", Some("SYTPMS TypeB"),
                    _process_tpms_b(address, local_name, mfr_data, company_id))
        ELSE IF company_id = 256
        THEN Routed("_process_tpms_a", Some("TPMSII TypeA"),
                    _process_tpms_a(address, local_name, mfr_data))
        ELSE IF company_id = 2088
        THEN Routed("_process_tpms_c", Some("Michelin"),
                    _process_tpms_c(address, local_name, mfr_data))
        ELSE Routed("none", None, Outcome(NoSensors, <<"debug">>, "none"))

----------------------------------------------------------------------------
(* sensor.py *)

\* the keys of SENSOR_DESCRIPTIONS, with their device class
SENSOR_DESCRIPTIONS ==
    [k \in {"pressure", "temperature", "battery", "signal_strength"} |-> k]

\* The entity_descriptions comprehension of
\* sensor_update_to_bluetooth_data_update over the keys of an update:
\* SENSOR_DESCRIPTIONS[device_key.key] raises KeyError on a missing key.
entity_descriptions_of(keys) ==
    IF keys \subseteq DOMAIN SENSOR_DESCRIPTIONS
    THEN [value |-> Some([k \in keys |-> SENSOR_DESCRIPTIONS[k]]), raised |-> "none"]
    ELSE [value |-> None, raised |-> "KeyError"]

----------------------------------------------------------------------------
(* The advertisements the model feeds in *)

MaxLen == 18        \* longest payload
MaxEntries == 2     \* most manufacturer entries in one advertisement
MaxVoltage == 400   \* highest voltage, in 0.01 V, given to battery_percentage

Zeros(n) == [i \in 1..n |-> 0]
Take(s, n) == SubSeq(s, 1, n)
pack_H_le(v) == <<v % 256, v \div 256>>
pack_i(v) ==
    LET w == IF v < 0 THEN (v + 2147483647) + 1 ELSE v
    IN  <<w % 256, (w \div 256) % 256, (w \div 65536) % 256,
          (w \div 16777216) + (IF v < 0 THEN 128 ELSE 0)>>

MichelinFrame(product, frame, raw_temp, raw_volt, p46, p1214) ==
    <<product, frame, raw_temp, raw_volt>> \o pack_H_le(p46) \o Zeros(6)
        \o pack_H_le(p1214) \o Zeros(MaxLen - 14)

TypeAFrame(pressure, temperature, battery, alarm) ==
    Zeros(6) \o pack_i(pressure) \o pack_i(temperature) \o <<battery, alarm>>
        \o Zeros(MaxLen - 16)

TypeBFrame(temperature, pressure) ==
    <<temperature, pressure \div 256, pressure % 256, 0, 0>> \o Zeros(MaxLen - 5)

FrameTypes == {2, 4, 5, 6, 12, 7}

PayloadsC ==
    {Take(MichelinFrame(1, f, 90, 230, 2000, 3000), n) :
        f \in FrameTypes, n \in 0..MaxLen}
    \cup {Take(MichelinFrame(1, f, tv[1], tv[2], p, 65535 - p), frame_length(f)) :
            f \in FrameTypes \ {7}, tv \in {<<0, 170>>, <<255, 255>>, <<60, 0>>},
            p \in {0, 999, 1015, 1125, 65535}}
    \cup {Take(MichelinFrame(2, 4, 90, 230, 2000, 3000), n) : n \in {1, 14}}

PayloadsA ==
    {Take(TypeAFrame(250000, 2500, 80, 1), n) : n \in 0..MaxLen}
    \cup {Take(TypeAFrame(pt[1], pt[2], b, a), 16) :
            pt \in {<<250000, 2500>>, <<-1, -4000>>},
            b \in {0, 100, 101, 127, 128, 255}, a \in {0, 1, 2}}

PayloadsB ==
    {Take(TypeBFrame(25, 500), n) : n \in 0..MaxLen}
    \cup {Take(TypeBFrame(t, p), 5) :
            t \in {0, 127, 128, 246},
            p \in {0, 145, 12645, 37645, 62645, 65535}}

CrossPayloads ==
    {Take(MichelinFrame(1, 4, 90, 230, 2000, 3000), n) : n \in {0, 1, 5, 14, 16}}
    \cup {Take(TypeAFrame(250000, 2500, 80, 1), n) : n \in {5, 14, 16}}
    \cup {Take(TypeBFrame(25, 500), 5)}

CompanyIds == {76, 256, 2088, 6952, 7464, 8488}
OTHER_UUID == "0000fbb0-0000-1000-8000-00805f9b34fb"
UuidSets == SUBSET {SERVICE_UUID_27A5, OTHER_UUID}
ADDRESS == "80:EA:CA:10:8A:78"

Advert(entries, uuids) ==
    [address |-> ADDRESS, name |-> "TPMS", manufacturer_data |-> entries,
     service_uuids |-> uuids]

\* entries after the first of an advertisement with several, with other ids
ExtraEntries(k) ==
    [i \in 1..k |->
        IF i = 1 THEN <<256, Take(TypeAFrame(250000, 2500, 80, 1), 16)>>
        ELSE IF i = 2
        THEN <<2088, Take(MichelinFrame(1, 4, 90, 230, 2000, 3000), 14)>>
        ELSE <<1000 + i, <<>> >>]

Adverts ==
    {Advert(<< <<c, d>> >>, u) : c \in CompanyIds, d \in CrossPayloads, u \in UuidSets}
    \cup {Advert(<< <<256, d>> >>, {}) : d \in PayloadsA}
    \cup {Advert(<< <<c, d>> >>, {SERVICE_UUID_27A5}) : c \in CompanyIds, d \in PayloadsB}
    \cup {Advert(<< <<2088, d>> >>, {}) : d \in PayloadsC}
    \cup {Advert(<<>>, u) : u \in UuidSets}
    \cup {Advert(<< <<c, Take(TypeBFrame(25, 500), 5)>> >> \o ExtraEntries(k), u) :
            c \in {76, 6952}, k \in 1..(MaxEntries - 1), u \in UuidSets}

Voltages == 0..MaxVoltage

----------------------------------------------------------------------------
(* The state machine *)

Init ==
    /\ service_info = None
    /\ called = "none"
    /\ device_manufacturer = None
    /\ device_name = None
    /\ sensors = EmptyMap
    /\ binary_sensors = EmptyMap
    /\ log = <<>>
    /\ raised = "none"
    /\ entity_descriptions = None
    /\ convert_raised = "none"
    /\ bp_voltage = 0
    /\ bp_percentage = None

\* BluetoothData.update hands an advertisement to _start_update.
StartUpdate(si) ==
    \E r \in {_start_update(si)} :
        /\ service_info' = Some(si)
        /\ called' = r.called
        /\ device_manufacturer' = r.manufacturer
        /\ device_name' = r.name
        /\ sensors' = r.sensors
        /\ binary_sensors' = r.binary_sensors
        /\ log' = r.log
        /\ raised' = r.raised
        /\ entity_descriptions' = None
        /\ convert_raised' = "none"
        /\ UNCHANGED <<bp_voltage, bp_percentage>>

\* The processor converts the update of a call that returned.
SensorUpdateToBluetoothDataUpdate ==
    /\ service_info # None
    /\ raised = "none"
    /\ entity_descriptions = None
    /\ convert_raised = "none"
    /\ \E r \in {entity_descriptions_of(DOMAIN sensors)} :
           /\ entity_descriptions' = r.value
           /\ convert_raised' = r.raised
    /\ UNCHANGED <<parser_vars, bp_voltage, bp_percentage>>

Next ==
    \/ \E si \in Adverts : StartUpdate(si)
    \/ SensorUpdateToBluetoothDataUpdate

Spec == Init /\ [][Next]_vars

(* battery_percentage on its own *)
InitBattery ==
    /\ service_info = None
    /\ called = "none"
    /\ device_manufacturer = None
    /\ device_name = None
    /\ sensors = EmptyMap
    /\ binary_sensors = EmptyMap
    /\ log = <<>>
    /\ raised = "none"
    /\ entity_descriptions = None
    /\ convert_raised = "none"
    /\ bp_voltage \in Voltages
    /\ bp_percentage = None

BatteryPercentage ==
    /\ bp_percentage = None
    /\ bp_percentage' = Some(battery_percentage(bp_voltage))
    /\ UNCHANGED <<parser_vars, entity_descriptions, convert_raised, bp_voltage>>

NextBattery == BatteryPercentage

SpecBattery == InitBattery /\ [][NextBattery]_vars

----------------------------------------------------------------------------
(* What the claims speak about, read off the state *)

Handled == service_info # None
Advertisement == service_info[1]
HasEntry == Handled /\ Len(Advertisement.manufacturer_data) >= 1
FirstCompany == Advertisement.manufacturer_data[1][1]
FirstPayload == Advertisement.manufacturer_data[1][2]
HasUuid27A5 == SERVICE_UUID_27A5 \in Advertisement.service_uuids
Keys == DOMAIN sensors
BinaryKeys == DOMAIN binary_sensors
YieldsReading == Keys # {} \/ BinaryKeys # {}
ErrorEntries == Cardinality({i \in DOMAIN log : log[i] = "error"})
KnownFrame == Len(FirstPayload) >= 2 /\ FirstPayload[1] = 1
                 /\ FirstPayload[2] \in {2, 4, 5, 6, 12}
Frame == FirstPayload[2]
RequiredLength == IF Frame \in {2, 6} THEN 12 ELSE IF Frame \in {4, 5} THEN 14 ELSE 17
Signed8(b) == IF b >= 128 THEN b - 256 ELSE b

----------------------------------------------------------------------------
(* C1 *)

\* C1 as stated: every advertisement with a manufacturer entry whose
\* service_uuids hold 000027a5-... is routed to the Michelin frame decoder.
C1_RoutedToMichelin ==
    (HasEntry /\ HasUuid27A5) => called = "_process_tpms_c"

\* C1 amended: every advertisement with a manufacturer entry whose
\* service_uuids hold 000027a5-... is routed, whatever the company id, to
\* the TypeB voltage/percentage decoder, as manufacturer "SYTPMS TypeB",
\* and what the call does is what that decoder does with the first payload
\* and the company id.
C1_UuidRoutesToTypeB ==
    (HasEntry /\ HasUuid27A5) =>
        /\ called = "_process_tpms_b"
        /\ device_manufacturer = Some("SYTPMS TypeB")
        /\ \E o \in {_process_tpms_b(Advertisement.address, Advertisement.name,
                                     FirstPayload, FirstCompany)} :
              /\ sensors = o.sensors
              /\ binary_sensors = o.binary_sensors
              /\ raised = o.raised

C1_Witness ==
    /\ HasEntry /\ HasUuid27A5
    /\ FirstCompany = 2088
    /\ called = "_process_tpms_b"
    /\ "voltage" \in Keys

----------------------------------------------------------------------------
(* C2 *)

\* C2 as stated: company 2088 without the 000027a5-... UUID is routed to
\* the TypeB voltage/percentage decoder and not to the Michelin one.
C2_RoutedToTypeB ==
    (HasEntry /\ FirstCompany = 2088 /\ ~HasUuid27A5) =>
        called = "_process_tpms_b"

\* C2 amended: company 2088 without the 000027a5-... UUID is routed to the
\* Michelin frame decoder, as manufacturer "Michelin", and not to the TypeB
\* decoder; what the call does is what that decoder does with the payload.
C2_Company2088RoutesToMichelin ==
    (HasEntry /\ FirstCompany = 2088 /\ ~HasUuid27A5) =>
        /\ called = "_process_tpms_c"
        /\ device_manufacturer = Some("Michelin")
        /\ \E o \in {_process_tpms_c(Advertisement.address, Advertisement.name,
                                     FirstPayload)} :
              /\ sensors = o.sensors
              /\ binary_sensors = o.binary_sensors
              /\ raised = o.raised

C2_Witness ==
    /\ HasEntry /\ FirstCompany = 2088 /\ ~HasUuid27A5
    /\ called = "_process_tpms_c"
    /\ Len(FirstPayload) = 5
    /\ Keys = {}

----------------------------------------------------------------------------
(* C3 *)

\* C3: _start_update returns normally for every advertisement, whatever
\* the payload length; malformed input only means no reading.
C3_NeverRaises == raised = "none"

----------------------------------------------------------------------------
(* C4 *)

LengthMismatch ==
    \/ called = "_process_tpms_a" /\ Len(FirstPayload) # 16
    \/ called = "_process_tpms_b" /\ Len(FirstPayload) # 5
    \/ called = "_process_tpms_c" /\ KnownFrame
         /\ Len(FirstPayload) # RequiredLength

\* C4: a payload whose length differs from the length its variant requires
\* (TypeA 16; TypeB 5; Michelin frames 0x02/0x06 12, 0x04/0x05 14, 0x0c 17)
\* updates no sensor and binary sensor and logs exactly one error record.
C4_LengthMismatchRejected ==
    (HasEntry /\ LengthMismatch) =>
        /\ Keys = {}
        /\ BinaryKeys = {}
        /\ ErrorEntries = 1

C4_Witness ==
    /\ HasEntry
    /\ called = "_process_tpms_c" /\ KnownFrame
    /\ Frame = 5 /\ Len(FirstPayload) = 12
    /\ Keys = {} /\ ErrorEntries = 1

----------------------------------------------------------------------------
(* C5, under SpecBattery *)

Anchors ==
    {<<330, 100>>, <<305, 97>>, <<294, 91>>, <<290, 75>>, <<285, 25>>,
     <<280, 17>>, <<260, 0>>}

\* C5: battery_percentage is non-decreasing in the voltage (no lower
\* voltage gets a higher percentage than the one just computed, and no
\* higher voltage a lower one), is exactly 100 from 3.3 V up and exactly 0
\* from 2.6 V down, and at each anchor voltage is that anchor's percent.
C5_BatteryCurve ==
    bp_percentage # None =>
        /\ \A v \in Voltages :
              /\ v <= bp_voltage => battery_percentage(v) <= bp_percentage[1]
              /\ v >= bp_voltage => battery_percentage(v) >= bp_percentage[1]
        /\ bp_voltage >= 330 => bp_percentage[1] = 100
        /\ bp_voltage <= 260 => bp_percentage[1] = 0
        /\ \A a \in Anchors : bp_voltage = a[1] => bp_percentage[1] = a[2]

C5_Witness == bp_voltage = 294 /\ bp_percentage = Some(91)

----------------------------------------------------------------------------
(* C6 *)

\* C6: the fields a reading updates are exactly the ones its variant
\* reports: TypeA pressure, temperature, battery, alarm; TypeB pressure,
\* temperature, battery, voltage; Michelin frames 0x04/0x05/0x0c pressure,
\* temperature, battery, voltage; Michelin frames 0x02/0x06 temperature,
\* battery, voltage.  No other field is updated.
C6_FieldsOfVariant ==
    (Handled /\ YieldsReading) =>
        CASE called = "_process_tpms_a" ->
                /\ Keys = {"pressure", "temperature", "battery"}
                /\ BinaryKeys = {"alarm"}
          [] called = "_process_tpms_b" ->
                /\ Keys = {"pressure", "temperature", "battery", "voltage"}
                /\ BinaryKeys = {}
          [] called = "_process_tpms_c" /\ Frame \in {4, 5, 12} ->
                /\ Keys = {"pressure", "temperature", "battery", "voltage"}
                /\ BinaryKeys = {}
          [] called = "_process_tpms_c" /\ Frame \in {2, 6} ->
                /\ Keys = {"temperature", "battery", "voltage"}
                /\ BinaryKeys = {}
          [] OTHER -> FALSE

C6_Witness ==
    /\ HasEntry
    /\ called = "_process_tpms_c" /\ KnownFrame /\ Frame = 6
    /\ Keys = {"temperature", "battery", "voltage"}

----------------------------------------------------------------------------
(* C7 *)

\* C7: the battery value of every reading, of any variant, is in 0..100.
C7_BatteryInRange ==
    "battery" \in Keys => sensors["battery"] \in 0..100

----------------------------------------------------------------------------
(* C8 *)

MichelinReading ==
    HasEntry /\ called = "_process_tpms_c" /\ KnownFrame
        /\ Len(FirstPayload) = RequiredLength

RawPressure ==
    IF Frame = 5 THEN FirstPayload[13] + 256 * FirstPayload[14]
    ELSE FirstPayload[5] + 256 * FirstPayload[6]

\* C8: a Michelin frame of a known type and the required length gives
\* temperature = byte2 - 60, voltage = byte3/100 + 1.0, battery =
\* battery_percentage(voltage) and, for frames 0x04, 0x05 and 0x0c,
\* pressure = max(0, round(raw/1000, 2) - 1) with raw the little-endian
\* 16 bits at bytes[4:6] (0x04, 0x0c) or bytes[12:14] (0x05), never
\* negative; frame 0x04 with 90, 230, 2000 gives 30, 3.30, 1.0 and 100.
C8_MichelinDecoding ==
    MichelinReading =>
        /\ sensors["temperature"] = 100 * (FirstPayload[3] - 60)
        /\ sensors["voltage"] = FirstPayload[4] + 100
        /\ sensors["battery"] = battery_percentage(FirstPayload[4] + 100)
        /\ Frame \in {4, 5, 12} =>
              /\ sensors["pressure"] >= 0
              /\ sensors["pressure"] =
                    (IF round2_thousandths(RawPressure) > 100
                     THEN 1000 * (round2_thousandths(RawPressure) - 100) ELSE 0)
        /\ (Frame = 4 /\ FirstPayload[3] = 90 /\ FirstPayload[4] = 230
                /\ RawPressure = 2000) =>
              sensors = [temperature |-> 3000, voltage |-> 330,
                         pressure |-> 100000, battery |-> 100]

C8_Witness ==
    /\ MichelinReading
    /\ Frame = 5 /\ RawPressure = 64536
    /\ sensors["pressure"] = 6354000

----------------------------------------------------------------------------
(* C9 *)

TypeBReading ==
    HasEntry /\ called = "_process_tpms_b" /\ Len(FirstPayload) = 5

\* C9: a 5-byte TypeB payload gives voltage = (high byte of company_id)/10,
\* temperature = byte0 as a signed 8-bit value, pressure =
\* round(((big-endian 16 bits of bytes 1..2) - 145)/10 * 0.0689476, 3) and
\* battery = battery_percentage of that voltage.
C9_TypeBDecoding ==
    TypeBReading =>
        /\ sensors["voltage"] = 10 * (FirstCompany \div 256)
        /\ sensors["temperature"] = 100 * Signed8(FirstPayload[1])
        /\ sensors["pressure"] =
              100 * round3_bar(256 * FirstPayload[2] + FirstPayload[3] - 145)
        /\ sensors["battery"] = battery_percentage(10 * (FirstCompany \div 256))

C9_Witness ==
    /\ TypeBReading
    /\ FirstCompany = 6952 /\ FirstPayload[1] = 246
    /\ sensors["voltage"] = 270 /\ sensors["temperature"] = -1000
    /\ sensors["battery"] = 9

----------------------------------------------------------------------------
(* C10 *)

\* C10: every key the parser emits through update_sensor has an entry in
\* SENSOR_DESCRIPTIONS, so converting an update never fails on a key.
C10_KeysDescribed ==
    /\ Keys \subseteq DOMAIN SENSOR_DESCRIPTIONS
    /\ convert_raised = "none"

====
